---- MODULE Spec2Model ----
(***************************************************************************)
(* Query analysis and performance prediction of the visual query builder   *)
(* (Major Project/visual_query_builder/query_builder).                     *)
(*                                                                         *)
(* Text is a sequence of one-character strings, so that substring counts   *)
(* and the regular expressions' word boundaries are computed character by  *)
(* character as Python's str.count and re.findall compute them.            *)
(*                                                                         *)
(* Numbers are fixed point: complexity scores in hundredths, times in      *)
(* milliseconds, scaled features in hundredths of a standard deviation,    *)
(* confidence in ten-thousandths.                                          *)
(***************************************************************************)
EXTENDS Integers, Sequences, FiniteSets, TLC

VARIABLES
    sql,              \* the string handed to QueryAnalyzer.analyze_query
    result,           \* what the call produced: pending, a returned record, or a raise
    analyzers,        \* QueryAnalyzer.performance_weights, of each instance
    analyzed,         \* the analyze_query calls made so far, in their order
    is_trained,       \* PerformancePredictor.is_trained, of each instance
    scaler,           \* PerformancePredictor.scaler, of each instance
    model,            \* PerformancePredictor.model, of each instance
    np_random_state,  \* the state of numpy's process-wide random generator
    predict_called,   \* the instances predict has been called on so far
    fitted_on,        \* the training list each instance's scaler and model were last fitted on
    call,             \* the last train or predict call: its arguments, steps and outcome
    connector,        \* a DatabaseConnector: its config and its connection
    called,           \* the last call on the connector: its outcomes abroad, steps and result
    served,           \* the last request a view served: the request, the steps and the response
    history           \* the QueryHistory rows written so far

analyzerVars == <<sql, result, analyzers, analyzed>>

predictorVars == <<is_trained, scaler, model, np_random_state, predict_called, fitted_on, call>>

webVars == <<connector, called, served, history>>

vars == <<sql, result, analyzers, analyzed, is_trained, scaler, model, np_random_state,
          predict_called, fitted_on, call, connector, called, served, history>>

(***************************************************************************)
(* Bounds of the model.                                                    *)
(***************************************************************************)
\* the longest SQL text, in fragments of Vocabulary
MaxFragments == 3

\* the most samples a caller hands to train
MaxSamples == 11

\* the most analyze_query calls of one session
MaxCalls == 3

\* the most QueryHistory rows
MaxHistory == 1

(***************************************************************************)
(* Characters and strings.                                                 *)
(***************************************************************************)
\* \w of Python's re: letters, digits and the underscore
WordChars ==
    {"A", "B", "C", "D", "E", "F", "G", "H", "I", "J", "K", "L", "M",
     "N", "O", "P", "Q", "R", "S", "T", "U", "V", "W", "X", "Y", "Z",
     "a", "b", "c", "d", "e", "f", "g", "h", "i", "j", "k", "l", "m",
     "n", "o", "p", "q", "r", "s", "t", "u", "v", "w", "x", "y", "z",
     "0", "1", "2", "3", "4", "5", "6", "7", "8", "9", "_"}

\* \s of Python's re, as far as the texts here hold it
SpaceChars == {" "}

\* the lower-case letter of each upper-case letter
UpperToLower ==
    ("A" :> "a") @@ ("B" :> "b") @@ ("C" :> "c") @@ ("D" :> "d") @@ ("E" :> "e") @@ ("F" :> "f") @@
    ("G" :> "g") @@ ("H" :> "h") @@ ("I" :> "i") @@ ("J" :> "j") @@ ("K" :> "k") @@ ("L" :> "l") @@
    ("M" :> "m") @@ ("N" :> "n") @@ ("O" :> "o") @@ ("P" :> "p") @@ ("Q" :> "q") @@ ("R" :> "r") @@
    ("S" :> "s") @@ ("T" :> "t") @@ ("U" :> "u") @@ ("V" :> "v") @@ ("W" :> "w") @@ ("X" :> "x") @@
    ("Y" :> "y") @@ ("Z" :> "z")

LowerChar(c) == IF c \in DOMAIN UpperToLower THEN UpperToLower[c] ELSE c

\* the sequence f, with every element computed
Computed(f) == SubSeq(f, 1, Len(f))

\* the one element of a set of one element: {e(x) : x \in {v}} computes v once
Only(S) == CHOOSE x \in S : TRUE

\* str.lower()
Lower(s) == Computed([i \in 1..Len(s) |-> LowerChar(s[i])])

\* whether pat occurs in s starting at position i
MatchAt(s, i, pat) ==
    /\ i >= 1
    /\ i + Len(pat) - 1 <= Len(s)
    /\ s[i] = pat[1]
    /\ \A k \in 2..Len(pat) : s[i + k - 1] = pat[k]

IsWordAt(s, i) == i >= 1 /\ i <= Len(s) /\ s[i] \in WordChars

\* the regular expression's \b between positions i-1 and i
BoundaryAt(s, i) == IsWordAt(s, i - 1) # IsWordAt(s, i)

Min(S) == CHOOSE m \in S : \A n \in S : m <= n

\* the matches a left-to-right scan keeps, of those that start at `starts`
\* (the one at i being lenAt[i] long): the first at or after `from`, then the
\* first that starts after its end, and so on
RECURSIVE NonOverlapping(_, _, _)
NonOverlapping(starts, lenAt, from) ==
    LET rest == {i \in starts : i >= from}
    IN  IF rest = {} THEN {}
        ELSE {Min(rest)} \cup NonOverlapping(starts, lenAt, Min(rest) + lenAt[Min(rest)])

\* str.count(pat): occurrences found left to right, never overlapping
StrCount(s, pat) ==
    LET starts == {i \in 1..(Len(s) - Len(pat) + 1) : MatchAt(s, i, pat)}
    IN  Cardinality(NonOverlapping(starts, [i \in starts |-> Len(pat)], 1))

\* pat in s
Contains(s, pat) == \E i \in 1..Len(s) : MatchAt(s, i, pat)

\* the length of the match of \b(w1|w2|...)\b that starts at position i, trying
\* the alternatives from the k-th on in their order; 0 when none matches
RECURSIVE WordMatchLen(_, _, _, _)
WordMatchLen(s, i, words, k) ==
    IF k > Len(words) THEN 0
    ELSE IF MatchAt(s, i, words[k]) /\ BoundaryAt(s, i + Len(words[k]))
         THEN Len(words[k])
         ELSE WordMatchLen(s, i, words, k + 1)

\* len(re.findall(r"\b(w1|w2|...)\b", s))
CountWords(s, words) ==
    LET starts == {i \in 1..Len(s) :
                      BoundaryAt(s, i) /\ WordMatchLen(s, i, words, 1) > 0}
    IN  Cardinality(NonOverlapping(starts,
                                   [i \in starts |-> WordMatchLen(s, i, words, 1)], 1))

(***************************************************************************)
(* The SQL texts: every concatenation of at most MaxFragments fragments.   *)
(* Parentheses are balanced inside a fragment and no fragment holds a      *)
(* quote, a comment or a BEGIN/END block, the only places where sqlparse   *)
(* does not end a statement at a semicolon.                                *)
(***************************************************************************)
Vocabulary == <<
    <<"S","E","L","E","C","T"," ","*"," ","F","R","O","M"," ","u","s","e","r","s">>,
    <<" ","(","s","e","l","e","c","t"," ","1"," ","f","r","o","m"," ","t",")">>,
    <<" ","J","o","i","n"," ","s","u","m","s">>,
    <<" ","w","h","e","r","e"," ","j","o","i","n","s">>,
    <<" ","g","r","o","u","p"," ","b","y">>,
    <<" ","o","r","d","e","r"," ","b","y">>,
    <<" ","H","a","v","i","n","g"," ","C","O","U","N","T","(","x",")">>,
    <<" ",";">>,
    <<" ","J","O","I","N"," ","a"," ","j","o","i","n"," ","b">>,
    <<" ","j","o","i","n","(","s","e","l","e","c","t","(","s","e","l","e","c","t","(","s","e","l","e","c","t","(","s","e","l","e","c","t","(","s","e","l","e","c","t"," ","m","a","x"," ","m","i","n"," ","a","v","g"," ","s","u","m">>
>>

RECURSIVE Concat(_)
Concat(frags) ==
    IF frags = <<>> THEN <<>>
    ELSE Vocabulary[Head(frags)] \o Concat(Tail(frags))

Texts ==
    {Concat(f) : f \in UNION {[1..n -> 1..Len(Vocabulary)] : n \in 0..MaxFragments}}

(***************************************************************************)
(* sqlparse.parse(sql)[0]                                                  *)
(***************************************************************************)
\* the position of the semicolon that ends the first statement (0: none);
\* level is the depth of open parentheses, inside which sqlparse does not split
RECURSIVE FirstSplit(_, _, _)
FirstSplit(s, i, level) ==
    IF i > Len(s) THEN 0
    ELSE IF s[i] = "(" THEN FirstSplit(s, i + 1, level + 1)
    ELSE IF s[i] = ")" THEN FirstSplit(s, i + 1, level - 1)
    ELSE IF s[i] = ";" /\ level <= 0 THEN i
    ELSE FirstSplit(s, i + 1, level)

\* the end of the whitespace run that starts at i (sqlparse keeps the
\* whitespace after the semicolon in the statement it closes)
RECURSIVE SkipSpace(_, _)
SkipSpace(s, i) ==
    IF i <= Len(s) /\ s[i] \in SpaceChars THEN SkipSpace(s, i + 1) ELSE i

\* str(sqlparse.parse(s)[0]), for a text sqlparse finds a statement in
FirstStatement(s) ==
    LET semi == FirstSplit(s, 1, 0)
    IN  IF semi = 0 THEN s ELSE SubSeq(s, 1, SkipSpace(s, semi + 1) - 1)

\* sqlparse.parse("") is the empty tuple
ParseIsEmpty(s) == s = <<>>

(***************************************************************************)
(* QueryAnalyzer                                                           *)
(***************************************************************************)
kwSelect  == <<"s","e","l","e","c","t">>
kwJoin    == <<"j","o","i","n">>
kwWhere   == <<"w","h","e","r","e">>
kwGroupBy == <<"g","r","o","u","p"," ","b","y">>
kwOrderBy == <<"o","r","d","e","r"," ","b","y">>
kwHaving  == <<"h","a","v","i","n","g">>
kwFrom    == <<"f","r","o","m">>
kwSubquery == <<"(","s","e","l","e","c","t">>
AggregateWords == << <<"c","o","u","n","t">>, <<"s","u","m">>, <<"a","v","g">>,
                     <<"m","a","x">>, <<"m","i","n">> >>

\* the weights with those of join and group_by exchanged
performance_weights_exchanged ==
    [select |-> 1000, join |-> 2000, where |-> 1200, group_by |-> 2500,
     order_by |-> 1500, subquery |-> 3000, aggregate |-> 2200]

\* self.performance_weights, in thousandths
performance_weights ==
    [select |-> 1000, join |-> 2500, where |-> 1200, group_by |-> 2000,
     order_by |-> 1500, subquery |-> 3000, aggregate |-> 2200]

\* the count of join as a substring, inside longer words too
_count_joins_substring(parsed) == StrCount(Lower(parsed), kwJoin)

\* len(re.findall(r"\bjoin\b", str(parsed).lower()))
_count_joins(parsed) == CountWords(Lower(parsed), <<kwJoin>>)

\* str(parsed).lower().count("(select")
_count_subqueries(parsed) == StrCount(Lower(parsed), kwSubquery)

\* len(re.findall(r"\b(count|sum|avg|max|min)\b", sql_lower))
_count_aggregations(parsed) == CountWords(Lower(parsed), AggregateWords)

\* round(score, 2): thousandths to the nearest hundredth
Round2(milli) == (milli + 5) \div 10

\* QueryAnalyzer(): the instance as its constructor leaves it
NewAnalyzer == [performance_weights |-> performance_weights]

_calculate_complexity(self, parsed) ==
    LET sql_lower == Lower(parsed)
        w == self.performance_weights
    IN  Round2(1000
               + StrCount(sql_lower, kwSelect) * w.select
               + CountWords(sql_lower, <<kwJoin>>) * w.join
               + StrCount(sql_lower, kwWhere) * w.where
               + StrCount(sql_lower, kwGroupBy) * w.group_by
               + StrCount(sql_lower, kwOrderBy) * w.order_by
               + StrCount(sql_lower, kwSubquery) * w.subquery
               + CountWords(sql_lower, AggregateWords) * w.aggregate)

\* the operations with JOIN found as a word, not as a substring
_extract_operations_by_word(parsed) ==
    LET sql_lower == Lower(parsed)
        op(kw, name) == IF Contains(sql_lower, kw) THEN <<name>> ELSE <<>>
    IN  op(kwSelect, "SELECT")
        \o (IF CountWords(sql_lower, <<kwJoin>>) > 0 THEN <<"JOIN">> ELSE <<>>)
        \o op(kwWhere, "WHERE")
        \o op(kwGroupBy, "GROUP BY") \o op(kwOrderBy, "ORDER BY")
        \o op(kwHaving, "HAVING")

_extract_operations(parsed) ==
    LET sql_lower == Lower(parsed)
        op(kw, name) == IF Contains(sql_lower, kw) THEN <<name>> ELSE <<>>
    IN  op(kwSelect, "SELECT") \o op(kwJoin, "JOIN") \o op(kwWhere, "WHERE")
        \o op(kwGroupBy, "GROUP BY") \o op(kwOrderBy, "ORDER BY")
        \o op(kwHaving, "HAVING")

\* the end of the run of word characters that starts at i
RECURSIVE SkipWord(_, _)
SkipWord(s, i) ==
    IF i <= Len(s) /\ s[i] \in WordChars THEN SkipWord(s, i + 1) ELSE i

\* where the match of kw\s+(\w+) that starts at position i ends (the position
\* after its last character), or 0 when it does not match there
TargetEnd(s, i, kw) ==
    IF ~MatchAt(s, i, kw) THEN 0
    ELSE LET a == i + Len(kw)
             b == SkipSpace(s, a)
             c == SkipWord(s, b)
         IN  IF b > a /\ c > b THEN c ELSE 0

\* group 1 of the match of kw\s+(\w+) that starts at position i
Target(s, i, kw) == SubSeq(s, SkipSpace(s, i + Len(kw)), TargetEnd(s, i, kw) - 1)

\* where re.findall(kw\s+(\w+), s) finds its matches
MatchStarts(s, kw) ==
    LET starts == {i \in 1..Len(s) : TargetEnd(s, i, kw) > 0}
    IN  NonOverlapping(starts, [i \in starts |-> TargetEnd(s, i, kw) - i], 1)

\* the tables with the target of every from, not of the first alone
_extract_tables_every_from(parsed) ==
    LET s == Lower(parsed)
    IN  {Target(s, i, kwFrom) : i \in MatchStarts(s, kwFrom)}
        \cup {Target(s, i, kwJoin) : i \in MatchStarts(s, kwJoin)}

\* list(set(tables)): the target of the first from (re.search) and of every
\* join (re.findall)
_extract_tables(parsed) ==
    LET s == Lower(parsed)
        froms == MatchStarts(s, kwFrom)
        joins == MatchStarts(s, kwJoin)
    IN  (IF froms = {} THEN {} ELSE {Target(s, Min(froms), kwFrom)})
        \cup {Target(s, i, kwJoin) : i \in joins}

\* int(x * 1000) of a double x = score/100 differs from the exact product
\* for these scores up to 100.00, where the double product falls just short
InexactTimes1000 == {3230, 6410, 6460, 6510}

\* int(base_rows * complexity_multiplier)
_estimate_rows(self, parsed) ==
    LET score == _calculate_complexity(self, parsed)
    IN  IF score \in InexactTimes1000 THEN 10 * score - 1 ELSE 10 * score

sugJoins      == "Consider breaking complex joins into smaller queries"
sugSubqueries == "Review subqueries - consider using JOINs instead"
sugIndex      == "High complexity query - consider indexing key columns"
sugGroupBy    == "Add GROUP BY clause when using aggregate functions"

InSeq(x, seq) == \E i \in 1..Len(seq) : seq[i] = x

\* the suggestions with thresholds that include their bound
_generate_suggestions_inclusive(analysis) ==
    (IF analysis.joins >= 3 THEN <<sugJoins>> ELSE <<>>)
    \o (IF analysis.subqueries >= 2 THEN <<sugSubqueries>> ELSE <<>>)
    \o (IF analysis.complexity_score >= 1000 THEN <<sugIndex>> ELSE <<>>)
    \o (IF analysis.aggregations > 0 /\ ~InSeq("GROUP BY", analysis.operations)
        THEN <<sugGroupBy>> ELSE <<>>)

_generate_suggestions(analysis) ==
    (IF analysis.joins > 3 THEN <<sugJoins>> ELSE <<>>)
    \o (IF analysis.subqueries > 2 THEN <<sugSubqueries>> ELSE <<>>)
    \o (IF analysis.complexity_score > 1000 THEN <<sugIndex>> ELSE <<>>)
    \o (IF analysis.aggregations > 0 /\ ~InSeq("GROUP BY", analysis.operations)
        THEN <<sugGroupBy>> ELSE <<>>)

\* the record analyze_query builds from the parsed statement
AnalysisOf(self, parsed) ==
    LET analysis ==
            [complexity_score |-> _calculate_complexity(self, parsed),
             operations |-> _extract_operations(parsed),
             tables |-> _extract_tables(parsed),
             joins |-> _count_joins(parsed),
             subqueries |-> _count_subqueries(parsed),
             aggregations |-> _count_aggregations(parsed),
             estimated_rows |-> _estimate_rows(self, parsed),
             optimization_suggestions |-> <<>>]
    IN  [analysis EXCEPT !.optimization_suggestions = _generate_suggestions(analysis)]

Pending == [status |-> "pending"]

\* a call that, besides its work, raises the weight of select on its instance
analyze_query_adjusting(self, s) ==
    IF ParseIsEmpty(s)
    THEN [status |-> "raised", error |-> "IndexError", self |-> self]
    ELSE [status |-> "returned", analysis |-> AnalysisOf(self, FirstStatement(s)),
          self |-> [self EXCEPT !.performance_weights.select = @ + 1000]]

\* analyze_query(s) on an instance `self`: the record returned or the exception
\* raised, and the instance afterwards
analyze_query(self, s) ==
    IF ParseIsEmpty(s)
    THEN [status |-> "raised", error |-> "IndexError", self |-> self]
    ELSE [status |-> "returned", analysis |-> AnalysisOf(self, FirstStatement(s)),
          self |-> self]

\* what the caller of analyze_query gets
Outcome(out) ==
    IF out.status = "returned"
    THEN [status |-> "returned", analysis |-> out.analysis]
    ELSE [status |-> "raised", error |-> out.error]

(***************************************************************************)
(* numpy's global random generator.  The Mersenne Twister is stood for by  *)
(* a Lehmer generator: like it, a deterministic stream fixed by the seed,  *)
(* read through draws that have numpy's ranges (randint excludes its upper *)
(* end, uniform its upper end, a Poisson draw is never negative).          *)
(***************************************************************************)
RngModulus == 65537
RngMultiplier == 75

\* np.random.seed(n)
Seeded(n) == n

\* the generator's state after one more draw; the draw is the new state
Advance(state) == (state * RngMultiplier) % RngModulus

\* a * b modulo RngModulus, computed without leaving 32 bits
MulMod(a, b) == (((a * (b \div 256)) % RngModulus) * 256 + a * (b % 256)) % RngModulus

RECURSIVE PowMod(_, _)
PowMod(a, n) ==
    IF n = 0 THEN 1
    ELSE IF n % 2 = 0 THEN PowMod(MulMod(a, a), n \div 2)
    ELSE MulMod(a, PowMod(MulMod(a, a), n \div 2))

\* the generator's state after n more draws
AdvanceBy(state, n) == MulMod(state, PowMod(RngMultiplier, n))

\* np.random.uniform(lo, hi), in hundredths: lo <= draw < hi
Uniform(state, lo, hi) == 100 * lo + (100 * (hi - lo) * (state - 1)) \div (RngModulus - 1)

\* the inverse of a cumulative distribution given in thousandths
RECURSIVE InverseCdf(_, _, _)
InverseCdf(cdf, u, k) ==
    IF k > Len(cdf) \/ u < cdf[k] THEN k - 1 ELSE InverseCdf(cdf, u, k + 1)

\* np.random.poisson(lam) for lam = 1 and lam = 2
PoissonCdf == << <<368, 736, 920, 981, 996, 999>>,
                 <<135, 406, 677, 857, 947, 983, 995, 999>> >>

Poisson(state, lam) == InverseCdf(PoissonCdf[lam], (1000 * (state - 1)) \div (RngModulus - 1), 1)

\* a draw that can give its upper end
RandInt_inclusive(state, lo, hi) == lo + (state % (hi - lo + 1))

\* np.random.randint(lo, hi): lo <= draw < hi
RandInt(state, lo, hi) == lo + (state % (hi - lo))

\* np.random.normal(0, 0.1), in milliseconds, within three standard deviations
Normal(state) == (state % 601) - 300

(***************************************************************************)
(* PerformancePredictor                                                    *)
(***************************************************************************)
\* dict.get(key, default)
Get(d, key, default) == IF key \in DOMAIN d THEN d[key] ELSE default

\* the features with 0 for every absent field
extract_features_zero_defaults(analysis) ==
    <<Get(analysis, "complexity_score", 0),
      Get(analysis, "joins", 0),
      Get(analysis, "subqueries", 0),
      Get(analysis, "aggregations", 0),
      Cardinality(Get(analysis, "tables", {})),
      Get(analysis, "estimated_rows", 0)>>

\* extract_features: [complexity_score, joins, subqueries, aggregations,
\* len(tables), estimated_rows]
extract_features(analysis) ==
    <<Get(analysis, "complexity_score", 100),
      Get(analysis, "joins", 0),
      Get(analysis, "subqueries", 0),
      Get(analysis, "aggregations", 0),
      Cardinality(Get(analysis, "tables", {})),
      Get(analysis, "estimated_rows", 1000)>>

NumFeatures == 6

DigitChars == <<"0", "1", "2", "3", "4", "5", "6", "7", "8", "9">>

\* f"table_{i}", for i < 10
TableName(i) == <<"t", "a", "b", "l", "e", "_", DigitChars[i + 1]>>

\* the synthetic sample drawn from the generator in state `state` (the state
\* before its first draw), and the state after its seven draws
SyntheticSample(state) ==
    LET s1 == Advance(state)
        s2 == Advance(s1)
        s3 == Advance(s2)
        s4 == Advance(s3)
        s5 == Advance(s4)
        s6 == Advance(s5)
        s7 == Advance(s6)
        complexity == Uniform(s1, 1, 20)
        joins == Poisson(s2, 2)
        subqueries == Poisson(s3, 1)
        aggregations == Poisson(s4, 1)
        tables == RandInt(s5, 1, 6)
        rows == RandInt(s6, 100, 10000)
        \* base_time * (complexity * 0.1 + joins * 0.2 + subqueries * 0.5
        \*   + aggregations * 0.3 + tables * 0.1 + (rows / 1000) * 0.05), in ms
        execution_time == complexity \div 10 + joins * 20 + subqueries * 50
                          + aggregations * 30 + tables * 10 + rows \div 200
                          + Normal(s7)
    IN  [sample |-> [analysis |-> [complexity_score |-> complexity,
                                   joins |-> joins,
                                   subqueries |-> subqueries,
                                   aggregations |-> aggregations,
                                   tables |-> {TableName(i) : i \in 0..(tables - 1)},
                                   estimated_rows |-> rows],
                     execution_time |-> IF execution_time < 10 THEN 10
                                        ELSE execution_time],
         state |-> s7]

NumSynthetic == 100

\* train: fewer samples than this and the synthetic set replaces them
MinSamples == 10

\* numpy's generator before anything seeds it: seeded by the system's entropy,
\* in one state or another
Unseeded == {7, 4099}

DrawsPerSample == 7

\* the loop of _generate_synthetic_data with the generator in state `start`:
\* the samples, and the state the generator is left in
Generate(start) ==
    [data |-> Computed([k \in 1..NumSynthetic |->
                  SyntheticSample(AdvanceBy(start, DrawsPerSample * (k - 1))).sample]),
     state |-> AdvanceBy(start, DrawsPerSample * NumSynthetic)]

\* the same from the seed 42, computed once
SeededData == Generate(Seeded(42))

\* the generator left as the caller had it
Reseed_absent(rng) == rng

\* np.random.seed(42), whatever state `rng` the generator was in
Reseed(rng) == Seeded(42)

\* _generate_synthetic_data() with numpy's global generator in state `rng`:
\* the samples, and the state it leaves the generator in
_generate_synthetic_data(rng) ==
    Only({IF start = Seeded(42) THEN SeededData ELSE Generate(start)
          : start \in {Reseed(rng)}})

(***************************************************************************)
(* sklearn's StandardScaler.  A column is held in fixed point: the score   *)
(* in hundredths as it comes, the four counts in hundredths, the rows in   *)
(* units; One is 1.0 in each column's unit.                                *)
(***************************************************************************)
One == <<100, 100, 100, 100, 100, 1>>

Fixed(x) == <<x[1], 100 * x[2], 100 * x[3], 100 * x[4], 100 * x[5], x[6]>>

\* xs[lo] + ... + xs[hi]
RECURSIVE SumRange(_, _, _)
SumRange(xs, lo, hi) ==
    IF lo > hi THEN 0
    ELSE IF lo = hi THEN xs[lo]
    ELSE SumRange(xs, lo, (lo + hi) \div 2) + SumRange(xs, (lo + hi) \div 2 + 1, hi)

SumSeq(xs) == SumRange(xs, 1, Len(xs))

\* the integer square root of n, between lo and hi
RECURSIVE ISqrtIn(_, _, _)
ISqrtIn(n, lo, hi) ==
    IF lo >= hi THEN lo
    ELSE LET mid == (lo + hi + 1) \div 2
         IN  IF mid * mid <= n THEN ISqrtIn(n, mid, hi) ELSE ISqrtIn(n, lo, mid - 1)

ISqrt(n) == ISqrtIn(n, 0, 46340)

\* the mean of squared deviations, floor(sum(d*d) / n), summed without
\* leaving 32 bits
MeanSquare(ds) ==
    LET n == Len(ds)
        squares == Computed([i \in 1..n |-> ds[i] * ds[i]])
    IN  SumSeq(Computed([i \in 1..n |-> squares[i] \div n]))
        + SumSeq(Computed([i \in 1..n |-> squares[i] % n])) \div n

\* the mean of a column
ColumnMean(xs) == SumSeq(xs) \div Len(xs)

\* the standard deviation of a column, 1.0 (`one`) for a column of zero variance
ColumnScale(xs, one) ==
    LET mean == ColumnMean(xs)
        std == ISqrt(MeanSquare(Computed([i \in 1..Len(xs) |-> xs[i] - mean])))
    IN  IF \A i \in 1..Len(xs) : xs[i] = xs[1] THEN one
        ELSE IF std = 0 THEN 1 ELSE std

Unfitted == [fitted |-> FALSE]

\* PerformancePredictor(): the instance as its constructor leaves it
NewPredictor == [scaler |-> Unfitted, model |-> Unfitted, is_trained |-> FALSE]

\* StandardScaler.fit(X): the column means and standard deviations; a column
\* of zero variance gets the scale 1.0
ScalerFit(X) ==
    LET n == Len(X)
        rows == Computed([i \in 1..n |-> Fixed(X[i])])
        columns == Computed([j \in 1..NumFeatures |->
                                Computed([i \in 1..n |-> rows[i][j]])])
    IN  [fitted |-> TRUE,
         mean_ |-> Computed([j \in 1..NumFeatures |-> ColumnMean(columns[j])]),
         scale_ |-> Computed([j \in 1..NumFeatures |->
                                 ColumnScale(columns[j], One[j])])]

\* StandardScaler.transform of one row: hundredths of a standard deviation
ScalerTransform(fit, x) ==
    Computed([j \in 1..NumFeatures |->
                 ((Fixed(x)[j] - fit.mean_[j]) * 100) \div fit.scale_[j]])

(***************************************************************************)
(* The regressor.  RandomForestRegressor(random_state=42) is, once fitted, *)
(* a fixed piecewise-constant function of its training rows; it is stood   *)
(* for by the nearest training row's target.                               *)
(***************************************************************************)
Abs(x) == IF x < 0 THEN -x ELSE x

Distance(u, v) ==
    Abs(u[1] - v[1]) + Abs(u[2] - v[2]) + Abs(u[3] - v[3])
    + Abs(u[4] - v[4]) + Abs(u[5] - v[5]) + Abs(u[6] - v[6])

\* model.fit(X_scaled, y)
ModelFit(Xs, y) == [fitted |-> TRUE, X |-> Xs, y |-> y]

\* model.predict(features_scaled)[0]
ModelPredict(forest, z) ==
    LET n == Len(forest.X)
        d == Computed([i \in 1..n |-> Distance(forest.X[i], z)])
        least == Min({d[i] : i \in 1..n})
        best == Min({i \in 1..n : d[i] = least})
    IN  forest.y[best]

\* np.var of the scaled row, in ten-thousandths
Variance(z) ==
    LET m == SumSeq(z) \div Len(z)
    IN  SumSeq(Computed([j \in 1..Len(z) |-> (z[j] - m) * (z[j] - m)])) \div Len(z)

\* the confidence without its clamp
_calculate_confidence_unclamped(features_scaled) == 10000 - Variance(features_scaled)

\* max(0.5, min(0.95, 1 - feature_variance)), in ten-thousandths
_calculate_confidence(features_scaled) ==
    LET feature_variance == Variance(features_scaled)
        upper == IF 10000 - feature_variance < 9500 THEN 10000 - feature_variance
                 ELSE 9500
    IN  IF upper > 5000 THEN upper ELSE 5000

\* the bands with upper ends that include their bound
_categorize_performance_inclusive(predicted_time) ==
    IF predicted_time <= 100 THEN "Excellent"
    ELSE IF predicted_time <= 500 THEN "Good"
    ELSE IF predicted_time <= 2000 THEN "Average"
    ELSE IF predicted_time <= 5000 THEN "Slow"
    ELSE "Very Slow"

\* the band of a time in milliseconds
_categorize_performance(predicted_time) ==
    IF predicted_time < 100 THEN "Excellent"
    ELSE IF predicted_time < 500 THEN "Good"
    ELSE IF predicted_time < 2000 THEN "Average"
    ELSE IF predicted_time < 5000 THEN "Slow"
    ELSE "Very Slow"

\* the loop of train: the rows X and the targets y of the training data
TrainingMatrix(data) ==
    [X |-> Computed([i \in 1..Len(data) |-> extract_features(data[i].analysis)]),
     y |-> Computed([i \in 1..Len(data) |-> data[i].execution_time])]

\* scaler.fit_transform(X) and model.fit(X_scaled, y)
FitOn(m) ==
    LET fitted_scaler == ScalerFit(m.X)
        X_scaled == Computed([i \in 1..Len(m.X) |->
                                 ScalerTransform(fitted_scaler, m.X[i])])
    IN  [scaler |-> fitted_scaler, model |-> ModelFit(X_scaled, m.y)]

\* the same of the synthetic set, computed once
SyntheticMatrix == TrainingMatrix(SeededData.data)

SyntheticFit == FitOn(SyntheticMatrix)

\* the test with the bound included
TooFew_inclusive(training_data) == Len(training_data) <= MinSamples

\* len(training_data) < 10
TooFew(training_data) == Len(training_data) < MinSamples

\* a sample that train cannot read: data["analysis"], data["execution_time"]
MissingKey(sample) ==
    "analysis" \notin DOMAIN sample \/ "execution_time" \notin DOMAIN sample

\* a fit that keeps the rows the regressor was fitted on before
Refit_warm(self, fit) ==
    IF self.model.fitted
    THEN [scaler |-> fit.scaler,
          model |-> [fit.model EXCEPT !.X = self.model.X \o @,
                                      !.y = self.model.y \o @]]
    ELSE fit

\* fit_transform and fit on estimators that were fitted before: StandardScaler
\* resets itself, and the forest (warm_start left False) is grown anew
Refit(self, fit) == fit

\* a train call that has lost the earlier fit by the time it raises
Interrupted_unfitted(self) ==
    [scaler |-> Unfitted, model |-> Unfitted, is_trained |-> FALSE]

\* the instance when the loop of train raises: nothing was assigned yet
Interrupted(self) == self

\* train(training_data) on an instance `self` with numpy's generator in state
\* `rng`: the instance and the generator afterwards, whether the call raised,
\* the steps taken and the list fitted on
train(self, training_data, rng) ==
    Only({Only({
        IF \E i \in 1..Len(data) : MissingKey(data[i])
        THEN [self |-> Interrupted(self), rng |-> generated.state, raised |-> "KeyError",
              steps |-> begun, data |-> <<>>]
        ELSE Only({[self |-> [scaler |-> fit.scaler, model |-> fit.model,
                              is_trained |-> TRUE],
                    rng |-> generated.state,
                    raised |-> "",
                    steps |-> begun \o <<"scaler.fit_transform", "model.fit">>,
                    data |-> data]
                   : fit \in {Refit(self, IF data = SeededData.data THEN SyntheticFit
                                           ELSE FitOn(TrainingMatrix(data)))}})
        : data \in {generated.data},
          begun \in {IF TooFew(training_data) THEN <<"_generate_synthetic_data">>
                     ELSE <<>>}})
      : generated \in {IF TooFew(training_data) THEN _generate_synthetic_data(rng)
                       ELSE [data |-> training_data, state |-> rng]}})

NoTraining(self, rng) ==
    [self |-> self, rng |-> rng, raised |-> "", steps |-> <<>>, data |-> <<>>]

\* predict training anew at every call
EnsureTrained_always(self, rng) ==
    Only({[t EXCEPT !.steps = <<"train">> \o t.steps]
          : t \in {train(self, <<>>, rng)}})

\* predict without its bootstrap
EnsureTrained_absent(self, rng) == NoTraining(self, rng)

\* what predict does first: train([]) when the instance is not trained
EnsureTrained(self, rng) ==
    IF ~self.is_trained
    THEN Only({[t EXCEPT !.steps = <<"train">> \o t.steps]
               : t \in {train(self, <<>>, rng)}})
    ELSE NoTraining(self, rng)

\* a floor of 0.1, the end of the first band
ClampTime_tenth(predicted_time) == IF predicted_time > 100 THEN predicted_time ELSE 100

\* the time without its floor
ClampTime_absent(predicted_time) == predicted_time

\* max(0.01, predicted_time), in milliseconds
ClampTime(predicted_time) == IF predicted_time > 10 THEN predicted_time ELSE 10

\* predict(analysis) on an instance `self` with numpy's generator in state
\* `rng`: the instance and the generator afterwards, the steps taken, the
\* list fitted on if it trained, the features, the regressor's own output and
\* the record returned
predict(self, analysis, rng) ==
    Only({
        IF t.raised # ""
        THEN t
        ELSE IF ~t.self.scaler.fitted \/ ~t.self.model.fitted
        THEN [t EXCEPT !.raised = "NotFittedError",
                       !.steps = @ \o <<"extract_features">>]
        ELSE Only({Only({Only({
                 [self |-> t.self, rng |-> t.rng, raised |-> "",
                  steps |-> t.steps \o <<"extract_features", "scaler.transform",
                                         "model.predict", "_calculate_confidence",
                                         "_categorize_performance">>,
                  data |-> t.data,
                  features |-> features,
                  raw |-> predicted_time,
                  returned |-> [predicted_time |-> ClampTime(predicted_time),
                                confidence |-> _calculate_confidence(features_scaled),
                                performance_category |->
                                    _categorize_performance(predicted_time)]]
                 : predicted_time \in {ModelPredict(t.self.model, features_scaled)}})
               : features_scaled \in {ScalerTransform(t.self.scaler, features)}})
             : features \in {extract_features(analysis)}})
        : t \in {EnsureTrained(self, rng)}})

(***************************************************************************)
(* The callers' inputs.                                                    *)
(***************************************************************************)
Predictors == {"p1", "p2"}

Analyzers == {"a1", "a2"}

\* the execution times of a caller's history, in milliseconds: below the
\* floor, on each band's edge and inside each band
HistoryTimes == <<99, 100, 499, 500, 1999, 2000, 4999, 5000, 5, 7000, 10, 9>>

\* the i-th sample of a caller's history (no query of it has a subquery)
HistorySample(i) ==
    [analysis |-> [complexity_score |-> 100 + 150 * i,
                   joins |-> i % 4,
                   subqueries |-> 0,
                   aggregations |-> i % 3,
                   tables |-> {TableName(k) : k \in 0..(i % 3)},
                   estimated_rows |-> 1000 + 1500 * i],
     execution_time |-> HistoryTimes[((i - 1) % Len(HistoryTimes)) + 1]]

History(n) == Computed([i \in 1..n |-> HistorySample(i)])

\* a history whose third sample has no execution_time
Damaged(n) ==
    Computed([i \in 1..n |-> IF i = 3 THEN [analysis |-> HistorySample(i).analysis]
                             ELSE HistorySample(i)])

\* a history whose second sample's analysis has no field that train reads
Sparse(n) ==
    Computed([i \in 1..n |-> IF i = 2 THEN [HistorySample(i) EXCEPT
                                               !.analysis = [operations |-> <<>>]]
                             ELSE HistorySample(i)])

\* what callers hand to train: nothing, too little (with a sample that lacks
\* a key), just enough (whole, and with a sample that lacks a key), and more
\* (with a sample whose analysis lacks its fields)
TrainingSets ==
    {History(0), Damaged(MinSamples - 1), History(MinSamples), Damaged(MinSamples),
     Sparse(MaxSamples)}

\* what callers hand to predict: records of the analyzer, records that lack
\* fields, a record near the synthetic mean, and the history's own records
PredictInputs ==
    {AnalysisOf(NewAnalyzer, Vocabulary[1]),
     [operations |-> <<>>],
     [complexity_score |-> 550, subqueries |-> 3],
     [complexity_score |-> 1035, joins |-> 2, subqueries |-> 1, aggregations |-> 1,
      tables |-> {TableName(k) : k \in 0..2}, estimated_rows |-> 4834]}
    \cup {HistorySample(i).analysis : i \in {1, 2, 4, 6, 8, 9}}

(***************************************************************************)
(* The database connector (database_connector.py).  What the database      *)
(* drivers do is not the program's to decide: each call is given the       *)
(* outcomes abroad, "ok" or "raise", of the driver calls it may make.      *)
(***************************************************************************)
None == "None"

Outcomes == {"ok", "raise"}

\* DatabaseConnector(connection_config)
DatabaseConnector(connection_config) ==
    [config |-> connection_config, connection |-> None]

\* the second strategy of connect for PostgreSQL: psycopg2.connect(dsn), then
\* the test of the connection
DsnStrategy(self, abroad, steps) ==
    IF abroad.open[2] = "raise"
    THEN [self |-> self, returned |-> "False",
          steps |-> steps \o <<"psycopg2.connect(dsn)">>]
    ELSE IF abroad.test[2] = "raise"
    THEN [self |-> [self EXCEPT !.connection = "dsn connection"],
          returned |-> "False",
          steps |-> steps \o <<"psycopg2.connect(dsn)", "SELECT 1">>]
    ELSE [self |-> [self EXCEPT !.connection = "dsn connection"],
          returned |-> "True",
          steps |-> steps \o <<"psycopg2.connect(dsn)", "SELECT 1">>]

\* connect(): the connector afterwards and what the call returned ("None" when
\* no branch returns)
connect(self, abroad) ==
    LET engine == self.config.engine
    IN  IF engine = "sqlite"
        THEN IF abroad.open[1] = "ok"
             THEN [self |-> [self EXCEPT !.connection = "sqlite connection"],
                   returned |-> "True", steps |-> <<"sqlite3.connect">>]
             ELSE [self |-> self, returned |-> "False", steps |-> <<"sqlite3.connect">>]
        ELSE IF engine = "postgresql"
        THEN IF ~abroad.has_driver
             THEN [self |-> self, returned |-> "False", steps |-> <<>>]
             ELSE IF abroad.open[1] = "raise"
             THEN DsnStrategy(self, abroad, <<"psycopg2.connect">>)
             ELSE IF abroad.test[1] = "raise"
             THEN DsnStrategy([self EXCEPT !.connection = "minimal connection"],
                              abroad, <<"psycopg2.connect", "SELECT 1">>)
             ELSE [self |-> [self EXCEPT !.connection = "minimal connection"],
                   returned |-> "True",
                   steps |-> <<"psycopg2.connect", "SELECT 1">>]
        ELSE IF engine = "mysql"
        THEN IF ~abroad.has_driver
             THEN [self |-> self, returned |-> "False", steps |-> <<>>]
             ELSE IF abroad.open[1] = "ok"
             THEN [self |-> [self EXCEPT !.connection = "mysql connection"],
                   returned |-> "True", steps |-> <<"mysql.connector.connect">>]
             ELSE [self |-> self, returned |-> "False",
                   steps |-> <<"mysql.connector.connect">>]
        ELSE IF engine = "oracle"
        THEN [self |-> self, returned |-> "False", steps |-> <<>>]
        ELSE [self |-> self, returned |-> "None", steps |-> <<>>]

\* the schema of _get_sample_schema, by its table names
SampleSchema == {"sample_users", "sample_orders", "sample_products"}

\* get_schema(): the schema by its table names, or the exception of cursor()
get_schema(self, abroad) ==
    IF self.connection = None
    THEN [raised |-> "", schema |-> {}, steps |-> <<>>]
    ELSE IF abroad.cursor = "raise"
    THEN [raised |-> "Error", schema |-> {}, steps |-> <<"connection.cursor">>]
    ELSE IF self.config.engine \notin {"sqlite", "postgresql"}
    THEN [raised |-> "", schema |-> {}, steps |-> <<"connection.cursor">>]
    ELSE IF abroad.execute = "raise"
    THEN [raised |-> "", schema |-> SampleSchema,
          steps |-> <<"connection.cursor", "cursor.execute", "_get_sample_schema">>]
    ELSE [raised |-> "", schema |-> abroad.tables,
          steps |-> <<"connection.cursor", "cursor.execute">>]

\* the rows of execute_query, by what they are
execute_query(self, sql_query, abroad) ==
    IF self.connection = None
    THEN [raised |-> "", results |-> <<"No database connection">>, steps |-> <<>>]
    ELSE IF abroad.cursor = "raise"
    THEN [raised |-> "Error", results |-> <<>>, steps |-> <<"connection.cursor">>]
    ELSE IF abroad.execute = "raise"
    THEN [raised |-> "", results |-> <<"error">>,
          steps |-> <<"connection.cursor", "cursor.execute">>]
    ELSE [raised |-> "", results |-> <<"row", "row">>,
          steps |-> <<"connection.cursor", "cursor.execute">>]

\* a close that keeps the connection when the driver's close raises
close_unless_raised(self, abroad) ==
    IF self.connection # None
    THEN [self |-> IF abroad.close = "raise" THEN self
                   ELSE [self EXCEPT !.connection = None],
          steps |-> <<"connection.close">>]
    ELSE [self |-> self, steps |-> <<>>]

\* close(): the driver's close may raise, connection is None all the same
close(self, abroad) ==
    IF self.connection # None
    THEN [self |-> [self EXCEPT !.connection = None],
          steps |-> <<"connection.close">>]
    ELSE [self |-> self, steps |-> <<>>]

\* the configs a connector is made with: the engines of the stored
\* connections' choices, and one that connect does not know
Engines == {"sqlite", "postgresql", "mysql", "oracle", "mssql"}

\* the outcomes abroad of the calls of connect, get_schema / execute_query
\* and close
ConnectOutcomes ==
    [has_driver : BOOLEAN, open : [1..2 -> Outcomes], test : [1..2 -> Outcomes]]

CursorOutcomes ==
    [cursor : Outcomes, execute : Outcomes, tables : {{}, {"users", "orders"}}]

CloseOutcomes == [close : Outcomes]

(***************************************************************************)
(* The views (views.py).  A view names the steps of a request in their     *)
(* order: the calls it makes and, after each connector call, the driver    *)
(* calls that call made.                                                   *)
(***************************************************************************)
\* the rows of DatabaseConnection, by id
StoredConnections ==
    <<[name |-> "Sample SQLite Database", engine |-> "sqlite"],
      [name |-> "Production", engine |-> "postgresql"],
      [name |-> "Sample SQLite Database", engine |-> "postgresql"],
      [name |-> "Warehouse", engine |-> "mysql"]>>

\* the ids a request may carry: those of the rows and one of no row
ConnectionIds == 1..(Len(StoredConnections) + 1)

\* get_sample_schema_response(connection, source), by its table names
get_sample_schema_response(source) ==
    [status |-> 200, connection_status |-> "sample_data", data_source |-> source,
     schema |-> {"users", "orders", "products"}]

\* what get_postgresql_schema_with_fallback and
\* get_sqlite_schema_with_sample_data do with their connector: connect,
\* get_schema and close, the schema's response or the sample's
RetrieveSchema(made, abroad, source, fallback, begun) ==
    LET c == connect(made, abroad.connect)
        connected == begun \o <<"connect">> \o c.steps
    IN  IF c.returned # "True"
        THEN LET k == close(c.self, abroad.close)
             IN  [connector |-> k.self,
                  steps |-> connected \o <<"close">> \o k.steps,
                  response |-> get_sample_schema_response(fallback)]
        ELSE LET g == get_schema(c.self, abroad.cursor)
                 got == connected \o <<"get_schema">> \o g.steps
                 k == close(c.self, abroad.close)
             IN  IF g.raised # ""
                 THEN [connector |-> k.self,
                       steps |-> got \o <<"close">> \o k.steps,
                       response |-> get_sample_schema_response(fallback)]
                 ELSE IF g.schema # {}
                 THEN [connector |-> k.self,
                       steps |-> got \o <<"close">> \o k.steps,
                       response |-> [status |-> 200, connection_status |-> "success",
                                     data_source |-> source, schema |-> g.schema]]
                 ELSE LET again == close(k.self, abroad.close)
                      IN  [connector |-> again.self,
                           steps |-> got \o <<"close">> \o k.steps
                                         \o <<"close">> \o again.steps,
                           response |->
                               get_sample_schema_response(fallback)]

get_postgresql_schema_with_fallback(connection, abroad) ==
    RetrieveSchema(DatabaseConnector([engine |-> connection.engine]), abroad,
                   "postgresql", "postgresql_fallback", <<>>)

get_sqlite_schema_with_sample_data(connection, abroad) ==
    RetrieveSchema(DatabaseConnector([engine |-> "sqlite"]), abroad,
                   "sqlite", "sqlite_fallback", <<"create_sample_sqlite_tables">>)

\* DatabaseSchemaView.get(request, connection_id)
DatabaseSchemaView_get(connection_id, abroad) ==
    IF connection_id \notin DOMAIN StoredConnections
    THEN [steps |-> <<>>,
          response |-> [status |-> 404, error |-> "Database connection not found"]]
    ELSE LET connection == StoredConnections[connection_id]
         IN  IF connection.engine = "sqlite"
             THEN get_sqlite_schema_with_sample_data(connection, abroad)
             ELSE IF connection.engine = "postgresql"
             THEN get_postgresql_schema_with_fallback(connection, abroad)
             ELSE [steps |-> <<>>, response |-> get_sample_schema_response("sample")]

\* _convert_visual_to_sql({}): "SELECT * FROM users LIMIT 10"
DefaultSql ==
    <<"S","E","L","E","C","T"," ","*"," ","F","R","O","M"," ",
      "u","s","e","r","s"," ","L","I","M","I","T"," ","1","0">>

\* the sql_query of a request: none, or a text
QueryTexts == {<<>>, Vocabulary[1], Concat(<<1, 9, 9>>)}

\* a view whose predictor was trained on a history before the request
QueryBuilderView_init_trained ==
    [analyzer |-> NewAnalyzer,
     predictor |-> train(NewPredictor, History(MinSamples), Min(Unseeded)).self]

\* QueryBuilderView(): as_view() makes the view anew for each request, with
\* its own analyzer and predictor
QueryBuilderView_init ==
    [analyzer |-> NewAnalyzer, predictor |-> NewPredictor]

\* analyze_query of a fresh analyzer, computed once for each text
ViewAnalysis ==
    [s \in QueryTexts \cup {DefaultSql} |-> analyze_query(NewAnalyzer, s)]

\* predict of the view's predictor on each text's analysis, computed once
\* for each state of numpy's generator
ViewPrediction ==
    [s \in {t \in DOMAIN ViewAnalysis : ViewAnalysis[t].status = "returned"},
     rng \in Unseeded \cup {SeededData.state} |->
        predict(QueryBuilderView_init.predictor, ViewAnalysis[s].analysis, rng)]

\* the response with the rows of an execution among its fields
response_data_with_results(sql_query, analysis, prediction, connection) ==
    [status |-> 200,
     sql_query |-> sql_query,
     analysis |-> analysis,
     prediction |-> prediction,
     results |-> <<"row", "row">>,
     optimization_suggestions |-> Get(analysis, "optimization_suggestions", <<>>),
     connection |-> [name |-> connection.name],
     query_hash |-> <<"md5", sql_query>>]

\* response_data of QueryBuilderView.post
response_data(sql_query, analysis, prediction, connection) ==
    [status |-> 200,
     sql_query |-> sql_query,
     analysis |-> analysis,
     prediction |-> prediction,
     optimization_suggestions |-> Get(analysis, "optimization_suggestions", <<>>),
     connection |-> [name |-> connection.name],
     query_hash |-> <<"md5", sql_query>>]

BadRequest(error, steps, rng) ==
    [steps |-> steps, rng |-> rng, response |-> [status |-> 400, error |-> error]]

\* QueryBuilderView.post(request), with numpy's generator in state rng
QueryBuilderView_post(request, rng) ==
    LET given == Get(request, "sql_query", <<>>)
        sql_query == IF given = <<>> THEN DefaultSql ELSE given
        begun == IF given = <<>> THEN <<"_convert_visual_to_sql">> ELSE <<>>
    IN  IF request.connection_id \notin DOMAIN StoredConnections
        THEN BadRequest("DoesNotExist", begun \o <<"objects.get">>, rng)
        ELSE IF ViewAnalysis[sql_query].status = "raised"
        THEN BadRequest(ViewAnalysis[sql_query].error,
                        begun \o <<"objects.get", "analyze_query">>, rng)
        ELSE Only({
            IF p.raised # ""
            THEN BadRequest(p.raised,
                            begun \o <<"objects.get", "analyze_query", "predict">>
                                  \o p.steps, p.rng)
            ELSE [steps |-> begun \o <<"objects.get", "analyze_query", "predict">>
                                  \o p.steps,
                  rng |-> p.rng,
                  consumed |-> p.features,
                  predictor |-> p.self,
                  response |->
                      response_data(sql_query, ViewAnalysis[sql_query].analysis,
                                    p.returned,
                                    StoredConnections[request.connection_id])]
            : p \in {ViewPrediction[sql_query, rng]}})

\* the rows execute_sample_query returns
sample_results == <<"John Doe", "Jane Smith", "Bob Johnson">>

\* execute_sample_query(sql_query, connection, visual_query)
execute_sample_query(sql_query, steps) ==
    IF ViewAnalysis[sql_query].status = "raised"
    THEN [steps |-> steps \o <<"execute_sample_query", "analyze_query">>,
          wrote |-> <<>>,
          response |-> [status |-> 400, error |-> ViewAnalysis[sql_query].error]]
    ELSE [steps |-> steps \o <<"execute_sample_query", "analyze_query">>,
          wrote |-> <<>>,
          response |-> [status |-> 200, results |-> sample_results,
                        execution_time |-> 45, rows_returned |-> Len(sample_results),
                        analysis |-> ViewAnalysis[sql_query].analysis,
                        data_source |-> "sample"]]

\* QueryExecutionView.post(request): the steps, the QueryHistory rows written
\* and the response
QueryExecutionView_post(request, abroad) ==
    LET sql_query == Get(request, "sql_query", <<>>)
    IN  IF request.connection_id \notin DOMAIN StoredConnections
        THEN [steps |-> <<"objects.get">>, wrote |-> <<>>,
              response |-> [status |-> 400, error |-> "DoesNotExist"]]
        ELSE LET connection == StoredConnections[request.connection_id]
             IN  IF connection.name = "Sample SQLite Database"
                    \/ connection.engine = "sqlite"
                 THEN execute_sample_query(sql_query, <<"objects.get">>)
                 ELSE LET c == connect(DatabaseConnector([engine |-> connection.engine]),
                                       abroad.connect)
                          connected == <<"objects.get", "connect">> \o c.steps
                      IN  IF c.returned # "True"
                          THEN execute_sample_query(sql_query, connected)
                          ELSE LET e == execute_query(c.self, sql_query, abroad.cursor)
                                   k == close(c.self, abroad.close)
                                   executed == connected \o <<"execute_query">> \o e.steps
                                   closed == executed \o <<"close">> \o k.steps
                               IN  IF e.raised # ""
                                   THEN [steps |-> executed, wrote |-> <<>>,
                                         response |-> [status |-> 400, error |-> e.raised]]
                                   ELSE IF ViewAnalysis[sql_query].status = "raised"
                                   THEN [steps |-> closed \o <<"analyze_query">>,
                                         wrote |-> <<>>,
                                         response |->
                                             [status |-> 400,
                                              error |-> ViewAnalysis[sql_query].error]]
                                   ELSE [steps |-> closed \o <<"analyze_query">>
                                                   \o (IF request.authenticated
                                                       THEN <<"QueryHistory.objects.create">>
                                                       ELSE <<>>),
                                         wrote |->
                                             IF request.authenticated
                                             THEN <<[database |-> request.connection_id,
                                                     query |-> sql_query,
                                                     rows_returned |-> Len(e.results)]>>
                                             ELSE <<>>,
                                         response |->
                                             [status |-> 200, results |-> e.results,
                                              rows_returned |-> Len(e.results),
                                              analysis |->
                                                  ViewAnalysis[sql_query].analysis]]

\* the requests of the two query views
BuildRequests ==
    [sql_query : QueryTexts, connection_id : ConnectionIds]

ExecuteRequests ==
    [sql_query : QueryTexts, connection_id : ConnectionIds, authenticated : BOOLEAN]

\* the outcomes abroad of connect that an execution request meets: all well,
\* the first strategy failing its test and the second succeeding or failing
\* to open, and no driver
ExecuteConnectOutcomes ==
    {[has_driver |-> TRUE, open |-> <<"ok", "ok">>, test |-> <<"ok", "ok">>],
     [has_driver |-> TRUE, open |-> <<"ok", "ok">>, test |-> <<"raise", "ok">>],
     [has_driver |-> TRUE, open |-> <<"ok", "raise">>, test |-> <<"raise", "ok">>],
     [has_driver |-> FALSE, open |-> <<"ok", "ok">>, test |-> <<"ok", "ok">>]}

ExecuteOutcomes ==
    [connect : ExecuteConnectOutcomes,
     cursor : [cursor : Outcomes, execute : Outcomes, tables : {{}}],
     close : CloseOutcomes]

\* the outcomes abroad of the connector calls of one request
RequestOutcomes ==
    [connect : ConnectOutcomes, cursor : CursorOutcomes, close : CloseOutcomes]

(***************************************************************************)
(* The state machines.                                                     *)
(***************************************************************************)
NoCall == [op |-> "none"]

\* PerformancePredictor() and QueryAnalyzer(): every instance as its
\* constructor leaves it
Constructed ==
    /\ analyzers = [a \in Analyzers |-> NewAnalyzer]
    /\ analyzed = <<>>
    /\ is_trained = [p \in Predictors |-> FALSE]
    /\ scaler = [p \in Predictors |-> Unfitted]
    /\ model = [p \in Predictors |-> Unfitted]
    /\ predict_called = {}
    /\ fitted_on = [p \in Predictors |-> [synthetic |-> FALSE, data |-> <<>>]]
    /\ call = NoCall
    /\ called = NoCall
    /\ served = NoCall
    /\ history = <<>>

Self(p) == [scaler |-> scaler[p], model |-> model[p], is_trained |-> is_trained[p]]

\* whether the call with outcome `out` fitted the scaler and the model
Fitted(out) == out.raised = "" /\ InSeq("model.fit", out.steps)

\* the instance p and numpy's generator after a call with outcome `out`
Becomes(p, out) ==
    /\ scaler' = [scaler EXCEPT ![p] = out.self.scaler]
    /\ model' = [model EXCEPT ![p] = out.self.model]
    /\ is_trained' = [is_trained EXCEPT ![p] = out.self.is_trained]
    /\ np_random_state' = out.rng
    /\ fitted_on' =
           IF Fitted(out)
           THEN [fitted_on EXCEPT
                    ![p] = [synthetic |-> InSeq("_generate_synthetic_data", out.steps),
                            data |-> out.data]]
           ELSE fitted_on

Train(p, training_data) ==
    \E out \in {train(Self(p), training_data, np_random_state)} :
        /\ Becomes(p, out)
        /\ call' = [op |-> "train", on |-> p, training_data |-> training_data,
                    was_trained |-> is_trained[p],
                    raised |-> out.raised, steps |-> out.steps]
        /\ UNCHANGED predict_called
        /\ UNCHANGED analyzerVars
        /\ UNCHANGED webVars

Predict(p, analysis) ==
    \E out \in {predict(Self(p), analysis, np_random_state)} :
        /\ Becomes(p, out)
        /\ predict_called' = predict_called \cup {p}
        /\ call' = [op |-> "predict", on |-> p, analysis |-> analysis,
                    first |-> p \notin predict_called,
                    was_trained |-> is_trained[p],
                    raised |-> out.raised, steps |-> out.steps,
                    features |-> Get(out, "features", <<>>),
                    raw |-> Get(out, "raw", 0),
                    returned |-> Get(out, "returned", <<>>)]
        /\ UNCHANGED analyzerVars
        /\ UNCHANGED webVars

PredictorInit ==
    /\ sql = <<>>
    /\ result = Pending
    /\ Constructed
    /\ np_random_state \in Unseeded
    /\ connector = DatabaseConnector([engine |-> "sqlite"])

PredictorNext ==
    \/ \E p \in Predictors, d \in TrainingSets : Train(p, d)
    \/ \E p \in Predictors, a \in PredictInputs : Predict(p, a)

PredictorSpec == PredictorInit /\ [][PredictorNext]_vars

\* the analyzer: a caller's string, then the call, on a fresh instance
AnalyzerInit ==
    /\ sql \in Texts
    /\ result = Pending
    /\ Constructed
    /\ np_random_state = Min(Unseeded)
    /\ connector = DatabaseConnector([engine |-> "sqlite"])

AnalyzeQuery ==
    /\ result.status = "pending"
    /\ \E out \in {analyze_query(analyzers["a1"], sql)} :
           /\ result' = Outcome(out)
           /\ analyzers' = [analyzers EXCEPT !["a1"] = out.self]
    /\ UNCHANGED <<sql, analyzed>>
    /\ UNCHANGED predictorVars
    /\ UNCHANGED webVars

AnalyzerNext == AnalyzeQuery

AnalyzerSpec == AnalyzerInit /\ [][AnalyzerNext]_vars

\* the strings of a session of several calls
SessionTexts == {<<>>, Vocabulary[1], Vocabulary[3], Vocabulary[7]}

\* a session: analyze_query called again and again, on any instance
SessionInit ==
    /\ sql = <<>>
    /\ result = Pending
    /\ Constructed
    /\ np_random_state = Min(Unseeded)
    /\ connector = DatabaseConnector([engine |-> "sqlite"])

AnalyzeAgain(a, s) ==
    /\ Len(analyzed) < MaxCalls
    /\ \E out \in {analyze_query(analyzers[a], s)} :
           /\ sql' = s
           /\ result' = Outcome(out)
           /\ analyzers' = [analyzers EXCEPT ![a] = out.self]
           /\ analyzed' = Append(analyzed, [on |-> a, sql |-> s,
                                            result |-> Outcome(out)])
    /\ UNCHANGED predictorVars
    /\ UNCHANGED webVars

SessionNext == \E a \in Analyzers, s \in SessionTexts : AnalyzeAgain(a, s)

SessionSpec == SessionInit /\ [][SessionNext]_vars

\* a connector and the calls made on it, in any order
ConnectorInit ==
    /\ sql = <<>>
    /\ result = Pending
    /\ Constructed
    /\ np_random_state = Min(Unseeded)
    /\ connector \in {DatabaseConnector([engine |-> e]) : e \in Engines}

Connect(abroad) ==
    \E out \in {connect(connector, abroad)} :
        /\ connector' = out.self
        /\ called' = [op |-> "connect", abroad |-> abroad, held |-> connector.connection,
                      returned |-> out.returned, steps |-> out.steps]
        /\ UNCHANGED <<served, history>>
        /\ UNCHANGED <<analyzerVars, predictorVars>>

GetSchema(abroad) ==
    \E out \in {get_schema(connector, abroad)} :
        /\ called' = [op |-> "get_schema", abroad |-> abroad, held |-> connector.connection,
                      raised |-> out.raised, returned |-> out.schema,
                      steps |-> out.steps]
        /\ UNCHANGED <<connector, served, history>>
        /\ UNCHANGED <<analyzerVars, predictorVars>>

Close(abroad) ==
    \E out \in {close(connector, abroad)} :
        /\ connector' = out.self
        /\ called' = [op |-> "close", abroad |-> abroad, held |-> connector.connection,
                      steps |-> out.steps]
        /\ UNCHANGED <<served, history>>
        /\ UNCHANGED <<analyzerVars, predictorVars>>

ConnectorNext ==
    \/ \E abroad \in ConnectOutcomes : Connect(abroad)
    \/ \E abroad \in CursorOutcomes : GetSchema(abroad)
    \/ \E abroad \in CloseOutcomes : Close(abroad)

ConnectorSpec == ConnectorInit /\ [][ConnectorNext]_vars

\* the schema view, serving request after request
SchemaInit ==
    /\ sql = <<>>
    /\ result = Pending
    /\ Constructed
    /\ np_random_state = Min(Unseeded)
    /\ connector = DatabaseConnector([engine |-> "sqlite"])

SchemaGet(connection_id, abroad) ==
    /\ UNCHANGED <<connector, called, history>>
    /\ UNCHANGED <<analyzerVars, predictorVars>>
    /\ \E out \in {DatabaseSchemaView_get(connection_id, abroad)} :
           served' = [op |-> "schema", connection_id |-> connection_id,
                      cursor |-> abroad.cursor, close |-> abroad.close,
                      steps |-> out.steps,
                      connector |-> Get(out, "connector", None),
                      response |-> out.response]

SchemaNext ==
    \E connection_id \in ConnectionIds, abroad \in RequestOutcomes :
        SchemaGet(connection_id, abroad)

SchemaSpec == SchemaInit /\ [][SchemaNext]_vars

\* the query views, serving request after request
QueryInit ==
    /\ sql = <<>>
    /\ result = Pending
    /\ Constructed
    /\ np_random_state \in Unseeded
    /\ connector = DatabaseConnector([engine |-> "sqlite"])

QueryBuild(request) ==
    \E out \in {QueryBuilderView_post(request, np_random_state)} :
        /\ np_random_state' = out.rng
        /\ served' = [op |-> "build", request |-> request, steps |-> out.steps,
                      consumed |-> Get(out, "consumed", <<>>),
                      predictor |-> Get(out, "predictor", NewPredictor),
                      response |-> out.response]
        /\ UNCHANGED <<connector, called, history>>
        /\ UNCHANGED analyzerVars
        /\ UNCHANGED <<is_trained, scaler, model, predict_called, fitted_on, call>>

QueryExecute(request, abroad) ==
    /\ Len(history) < MaxHistory
    /\ \E out \in {QueryExecutionView_post(request, abroad)} :
           /\ history' = history \o out.wrote
           /\ served' = [op |-> "execute", request |-> request,
                         connect |-> abroad.connect,
                         steps |-> out.steps, wrote |-> out.wrote,
                         response |-> out.response]
    /\ UNCHANGED <<connector, called>>
    /\ UNCHANGED <<analyzerVars, predictorVars>>

QueryNext ==
    \/ \E request \in BuildRequests : QueryBuild(request)
    \/ \E request \in ExecuteRequests, abroad \in ExecuteOutcomes :
           QueryExecute(request, abroad)

QuerySpec == QueryInit /\ [][QueryNext]_vars

(***************************************************************************)
(* The analyzer's properties, of AnalyzerSpec.                             *)
(***************************************************************************)
Returned == result.status = "returned"

\* C1: analyze_query is total over all strings: it never raises, and for the
\* empty string it returns complexity_score 1.0, no tables, joins, subqueries
\* and aggregations 0, and no suggestions.
C1_AnalyzeQueryIsTotal ==
    result.status # "pending" =>
        /\ Returned
        /\ sql = <<>> =>
              /\ result.analysis.complexity_score = 100
              /\ result.analysis.tables = {}
              /\ result.analysis.joins = 0
              /\ result.analysis.subqueries = 0
              /\ result.analysis.aggregations = 0
              /\ result.analysis.optimization_suggestions = <<>>

\* C7: for every SQL string, analyze_query returns a record whose
\* complexity_score is at least 1.0.
C7_ScoreAtLeastBaseline ==
    result.status # "pending" =>
        Returned /\ result.analysis.complexity_score >= 100

\* C8: complexity_score is 1.0 plus, over the seven constructs, the count times
\* the weight (select 1.0, join 2.5, where 1.2, group by 2.0, order by 1.5,
\* subquery 3.0, aggregate 2.2), rounded to two decimal places; select, where,
\* group by and order by are counted as substrings of the lower-cased text.
C8_ScoreIsWeightedSum ==
    Returned =>
        LET a == result.analysis
            text == Lower(FirstStatement(sql))
        IN  10 * a.complexity_score =
                1000 + 1000 * StrCount(text, kwSelect)
                     + 2500 * a.joins
                     + 1200 * StrCount(text, kwWhere)
                     + 2000 * StrCount(text, kwGroupBy)
                     + 1500 * StrCount(text, kwOrderBy)
                     + 3000 * a.subqueries
                     + 2200 * a.aggregations

\* a query with a subquery, a join and an aggregate: 1 + 1 + 3 + 2.5 + 2.2
C8_Witness ==
    /\ Returned
    /\ sql = Concat(<<2, 3, 7>>)
    /\ result.analysis.joins = 1
    /\ result.analysis.subqueries = 1
    /\ result.analysis.aggregations = 1
    /\ result.analysis.complexity_score = 970

\* C9: over the whole lower-cased text the caller supplied, text after a
\* statement separator included, joins is the number of matches of the word
\* join, subqueries the number of occurrences of "(select", and aggregations
\* the number of matches of the words count, sum, avg, max, min.
C9_CountsOverWholeText ==
    Returned =>
        /\ result.analysis.joins = CountWords(Lower(sql), <<kwJoin>>)
        /\ result.analysis.subqueries = StrCount(Lower(sql), kwSubquery)
        /\ result.analysis.aggregations = CountWords(Lower(sql), AggregateWords)

\* C10: optimization_suggestions holds exactly the suggestions whose condition
\* holds (joins > 3, subqueries > 2, complexity_score > 10, aggregations > 0
\* without GROUP BY among the operations), in that order; joins = 3,
\* subqueries = 2 and complexity_score = 10 trigger nothing, and
\* SELECT * FROM users triggers no suggestion.
C10_SuggestionsInOrder ==
    Returned =>
        LET a == result.analysis
            got == a.optimization_suggestions
            order == <<sugJoins, sugSubqueries, sugIndex, sugGroupBy>>
            holds == <<a.joins >= 4,
                       a.subqueries >= 3,
                       a.complexity_score >= 1001,
                       a.aggregations >= 1 /\ ~InSeq("GROUP BY", a.operations)>>
            place(x) == CHOOSE k \in 1..4 : order[k] = x
        IN  /\ \A i \in 1..Len(got) : InSeq(got[i], order)
            /\ \A k \in 1..4 : InSeq(order[k], got) <=> holds[k]
            /\ \A i \in 1..Len(got) : \A j \in (i + 1)..Len(got) :
                   place(got[i]) < place(got[j])
            /\ sql = Vocabulary[1] => got = <<>>

\* four joins and an aggregate without GROUP BY: three suggestions, in order
C10_Witness ==
    /\ Returned
    /\ result.analysis.joins = 4
    /\ result.analysis.subqueries = 0
    /\ result.analysis.optimization_suggestions = <<sugJoins, sugIndex, sugGroupBy>>

(***************************************************************************)
(* The predictor's properties, of PredictorSpec.                           *)
(***************************************************************************)
Predicted == call.op = "predict"

Trained == call.op = "train"

\* the position of a step among the steps of the last call (0: not taken)
StepAt(name) ==
    IF InSeq(name, call.steps)
    THEN Min({i \in 1..Len(call.steps) : call.steps[i] = name})
    ELSE 0

\* C2: whatever the record and the state of the predictor, and whatever the
\* regressor puts out, predict returns a predicted_time of at least 0.01.
C2_TimeAtLeastFloor ==
    Predicted => call.raised = "" /\ call.returned.predicted_time >= 10

\* a regressor trained on a caller's history puts out 0.005; predict returns 0.01
C2_Witness ==
    /\ Predicted
    /\ call.raised = ""
    /\ call.raw = 5
    /\ call.returned.predicted_time = 10

\* C3: the confidence predict returns lies in [0.5, 0.95]: it is 1 minus the
\* variance of the scaled feature vector, clamped to that interval.
C3_ConfidenceClamped ==
    Predicted =>
        LET z == ScalerTransform(scaler[call.on], extract_features(call.analysis))
            free == 10000 - Variance(z)
            confidence == call.returned.confidence
        IN  /\ call.raised = ""
            /\ confidence >= 5000
            /\ confidence <= 9500
            /\ free < 5000 => confidence = 5000
            /\ free > 9500 => confidence = 9500
            /\ free \in 5000..9500 => confidence = free

\* a variance above 0.5: the confidence is held at 0.5
C3_Witness ==
    /\ Predicted
    /\ call.raised = ""
    /\ Variance(ScalerTransform(scaler[call.on], extract_features(call.analysis))) > 5000
    /\ call.returned.confidence = 5000

\* C4: the category is the first band the time is strictly below (0.1
\* Excellent, 0.5 Good, 2.0 Average, 5.0 Slow), Very Slow otherwise; a time on
\* a bound is in the next band, and every time has exactly one category.
C4_CategoryBands ==
    Predicted =>
        LET t == call.raw
            category == call.returned.performance_category
        IN  /\ call.raised = ""
            /\ category = "Excellent" <=> t < 100
            /\ category = "Good"      <=> t >= 100 /\ t < 500
            /\ category = "Average"   <=> t >= 500 /\ t < 2000
            /\ category = "Slow"      <=> t >= 2000 /\ t < 5000
            /\ category = "Very Slow" <=> t >= 5000
            /\ t = 100 => category = "Good"
            /\ t = 500 => category = "Average"
            /\ t = 2000 => category = "Slow"
            /\ t = 5000 => category = "Very Slow"

\* a time of exactly 2.0 is Slow
C4_Witness ==
    /\ Predicted
    /\ call.raised = ""
    /\ call.raw = 2000
    /\ call.returned.performance_category = "Slow"

\* predict on an instance that was not trained: train([]) and its synthetic
\* fit come before the features are scaled and the regressor is asked
BootstrapsFirst ==
    /\ SubSeq(call.steps, 1, 4) =
           <<"train", "_generate_synthetic_data", "scaler.fit_transform", "model.fit">>
    /\ StepAt("scaler.transform") > 4
    /\ StepAt("model.predict") > 4
    /\ scaler[call.on] = SyntheticFit.scaler
    /\ model[call.on] = SyntheticFit.model

C6_TrainingSetChosen ==
    Trained /\ call.raised = "" =>
        LET given == call.training_data
            empty == train([scaler |-> Unfitted, model |-> Unfitted,
                            is_trained |-> FALSE], <<>>, np_random_state).self
            own == FitOn(TrainingMatrix(given))
        IN  /\ is_trained[call.on]
            /\ Len(given) < 10 =>
                  /\ StepAt("_generate_synthetic_data") > 0
                  /\ Len(model[call.on].X) = 100
                  /\ scaler[call.on] = empty.scaler
                  /\ model[call.on] = empty.model
            /\ Len(given) >= 10 =>
                  /\ StepAt("_generate_synthetic_data") = 0
                  /\ Len(model[call.on].X) = Len(given)
                  /\ scaler[call.on] = own.scaler
                  /\ model[call.on] = own.model

\* nine samples of a caller, dropped for the synthetic hundred
C6_Witness ==
    /\ Trained
    /\ call.raised = ""
    /\ Len(call.training_data) = 9
    /\ Len(model[call.on].X) = 100
    /\ model[call.on] = SyntheticFit.model

(***************************************************************************)
(* More of the analyzer's properties, of AnalyzerSpec.                     *)
(***************************************************************************)
\* the lower-cased text of the statement analyze_query parsed
Analysed == Lower(FirstStatement(sql))

\* where kw, white space and a word follow one another in s
Followed(s, kw) == {i \in 1..Len(s) : TargetEnd(s, i, kw) > 0}

C12_OperationsInFixedOrder ==
    Returned =>
        LET got == result.analysis.operations
            order == <<"SELECT", "JOIN", "WHERE", "GROUP BY", "ORDER BY", "HAVING">>
            keyword == <<kwSelect, kwJoin, kwWhere, kwGroupBy, kwOrderBy, kwHaving>>
            place(x) == CHOOSE k \in 1..6 : order[k] = x
        IN  /\ \A i \in 1..Len(got) : InSeq(got[i], order)
            /\ \A k \in 1..6 : InSeq(order[k], got) <=> Contains(Analysed, keyword[k])
            /\ \A i \in 1..Len(got) : \A j \in (i + 1)..Len(got) :
                   place(got[i]) < place(got[j])

\* "order by", then "where joins", then the select: the operations come out
\* in the fixed order, JOIN among them though no join is counted
C12_Witness ==
    /\ Returned
    /\ sql = Concat(<<6, 4, 1>>)
    /\ result.analysis.joins = 0
    /\ result.analysis.operations = <<"SELECT", "JOIN", "WHERE", "ORDER BY">>

\* C13: in every record returned, estimated_rows is the integer value of 1000
\* times the record's complexity_score, hence at least 1000.
C13_RowsAreThousandTimesScore ==
    Returned =>
        /\ result.analysis.estimated_rows = 10 * result.analysis.complexity_score
        /\ result.analysis.estimated_rows >= 1000

(***************************************************************************)
(* More of the predictor's properties, of PredictorSpec.                   *)
(***************************************************************************)
\* the value of a field of the record r, or `absent` when r lacks the field
FieldOr(r, field, absent) == IF field \in DOMAIN r THEN r[field] ELSE absent

\* C14: the feature vector of an analysis record has exactly 6 components, in
\* the order complexity_score, joins, subqueries, aggregations, number of
\* tables, estimated_rows; an absent field counts as 1.0, 0, 0, 0, 0, 1000.
C14_FeatureVector ==
    Predicted =>
        LET a == call.analysis
            f == call.features
        IN  /\ Len(f) = 6
            /\ f[1] = FieldOr(a, "complexity_score", 100)
            /\ f[2] = FieldOr(a, "joins", 0)
            /\ f[3] = FieldOr(a, "subqueries", 0)
            /\ f[4] = FieldOr(a, "aggregations", 0)
            /\ f[5] = (IF "tables" \in DOMAIN a THEN Cardinality(a.tables) ELSE 0)
            /\ f[6] = FieldOr(a, "estimated_rows", 1000)

\* a record with two fields only: the other four features are the defaults
C14_Witness ==
    /\ Predicted
    /\ call.analysis = [complexity_score |-> 550, subqueries |-> 3]
    /\ call.features = <<550, 0, 3, 0, 0, 1000>>

(***************************************************************************)
(* The analyzer over several calls, of SessionSpec.                        *)
(***************************************************************************)
\* C15: analyze_query called twice on the same string, on the same instance
\* or on two, with any calls in between, yields the same record: no call
\* changes anything a later call reads.
C15_SameStringSameRecord ==
    /\ \A i, j \in 1..Len(analyzed) :
           analyzed[i].sql = analyzed[j].sql =>
               analyzed[i].result = analyzed[j].result
    /\ \A a \in Analyzers : analyzers[a] = NewAnalyzer

\* the same string on two instances, the second after another call on it
C15_Witness ==
    /\ Len(analyzed) = 3
    /\ analyzed[1].sql = Vocabulary[3]
    /\ analyzed[3].sql = Vocabulary[3]
    /\ analyzed[2].sql = Vocabulary[7]
    /\ analyzed[1].on # analyzed[3].on
    /\ analyzed[2].on = analyzed[3].on
    /\ analyzed[1].result.status = "returned"
    /\ analyzed[3].result = analyzed[1].result

(***************************************************************************)
(* The predictor's training data and the generator, of PredictorSpec.      *)
(***************************************************************************)
\* C16: two instances that were each last trained through the synthetic
\* bootstrap hold the same training data and the same fitted scaler and
\* model, however often and in whatever order the bootstrap ran before.
C16_BootstrapIsReproducible ==
    \A p, q \in Predictors :
        fitted_on[p].synthetic /\ fitted_on[q].synthetic =>
            /\ fitted_on[p].data = fitted_on[q].data
            /\ scaler[p] = scaler[q]
            /\ model[p] = model[q]

\* one instance bootstrapped by an earlier call, the other by a train call
\* with too few samples after it had been trained already
C16_Witness ==
    /\ \A p \in Predictors : fitted_on[p].synthetic
    /\ Trained
    /\ call.was_trained
    /\ Len(call.training_data) = 9
    /\ StepAt("_generate_synthetic_data") > 0
    /\ Len(fitted_on[call.on].data) = 100

\* the table counts and the row counts the generator can draw, over all its states
TableCountDraws == {RandInt(r, 1, 6) : r \in 1..(RngModulus - 1)}

RowDraws == {RandInt(r, 100, 10000) : r \in 1..(RngModulus - 1)}

\* the synthetic samples an instance was fitted on: 100 of them, each with a
\* time of at least 0.01, counts that are not negative, and a table count and
\* a row count within the given ranges
SamplesWithin(p, table_counts, row_counts) ==
    LET data == fitted_on[p].data
    IN  /\ Len(data) = 100
        /\ \A i \in 1..Len(data) :
               /\ data[i].execution_time >= 10
               /\ data[i].analysis.joins >= 0
               /\ data[i].analysis.subqueries >= 0
               /\ data[i].analysis.aggregations >= 0
               /\ Cardinality(data[i].analysis.tables) \in table_counts
               /\ data[i].analysis.estimated_rows \in row_counts

\* C17 as stated: the generator returns exactly 100 samples, each with
\* execution_time of at least 0.01, non-negative joins, subqueries and
\* aggregations, a table count drawn from the integers 1 to 6 and
\* estimated_rows drawn from the integers 100 to 10000.
C17_DrawnFromOneToSix ==
    \A p \in Predictors :
        fitted_on[p].synthetic =>
            /\ SamplesWithin(p, 1..6, 100..10000)
            /\ TableCountDraws = 1..6
            /\ RowDraws = 100..10000

\* C17, amended: the generator returns exactly 100 samples, each with
\* execution_time of at least 0.01, non-negative joins, subqueries and
\* aggregations, a table count drawn from the integers 1 to 5 and
\* estimated_rows drawn from the integers 100 to 9999: randint leaves out its
\* upper end.
C17_DrawnBelowUpperEnd ==
    \A p \in Predictors :
        fitted_on[p].synthetic =>
            /\ SamplesWithin(p, 1..5, 100..9999)
            /\ TableCountDraws = 1..5
            /\ RowDraws = 100..9999

\* a bootstrap whose samples hold a table count of 5 and a time on the floor
C17_Witness ==
    \E p \in Predictors :
        /\ fitted_on[p].synthetic
        /\ Len(fitted_on[p].data) = 100
        /\ \E i \in 1..100 : Cardinality(fitted_on[p].data[i].analysis.tables) = 5
        /\ \E i \in 1..100 : fitted_on[p].data[i].execution_time = 10

\* C18: train and predict change no state outside the instance they are
\* called on: the other instances and the analyzers stay as they were, and no
\* process-wide state (numpy's random generator) is modified.
C18_NoStateOutsideInstance ==
    [][/\ np_random_state' = np_random_state
       /\ \A q \in Predictors \ {call'.on} :
              /\ scaler'[q] = scaler[q]
              /\ model'[q] = model[q]
              /\ is_trained'[q] = is_trained[q]
       /\ UNCHANGED analyzerVars]_vars

\* C19: neither train nor predict rejects its input: no call raises, a sample
\* or an analysis record with a field absent included, and a train call leaves
\* the instance trained.
C19_InputNeverRejected ==
    /\ call.op # "none" => call.raised = ""
    /\ call.op = "train" => is_trained[call.on]

(***************************************************************************)
(* The join count, of AnalyzerSpec.                                        *)
(***************************************************************************)
\* the places of the text s where word stands with no letter, digit or
\* underscore next to it on either side
Standalone(s, word) ==
    {i \in 1..Len(s) : /\ MatchAt(s, i, word)
                       /\ ~IsWordAt(s, i - 1)
                       /\ ~IsWordAt(s, i + Len(word))}

\* C20 as stated: the join count is lexical: besides the word join itself, an
\* identifier such as joins appearing in the text is counted as a join
\* occurrence.
C20_JoinsIdentifierCounted ==
    Returned =>
        result.analysis.joins =
            Cardinality(Standalone(Analysed, kwJoin))
            + Cardinality(Standalone(Analysed, kwJoin \o <<"s">>))

\* C20, amended: the join count is lexical: it is the number of places where
\* join stands as a whole word in the lower-cased text, whatever the word is
\* there for; an identifier such as joins holds no such place and is not
\* counted.
C20_JoinCountedAsWholeWord ==
    Returned =>
        result.analysis.joins = Cardinality(Standalone(Analysed, kwJoin))

\* a join and a column named joins: one join counted
C20_Witness ==
    /\ Returned
    /\ sql = Concat(<<1, 3, 4>>)
    /\ Standalone(Analysed, kwJoin \o <<"s">>) # {}
    /\ result.analysis.joins = 1

(***************************************************************************)
(* The suggestions and the score, of AnalyzerSpec.                         *)
(***************************************************************************)
\* C23: in every record returned, when the suggestion on complex joins
\* (joins > 3) or the one on subqueries (subqueries > 2) is present, the
\* suggestion on indexing (complexity_score > 10) is present too: four joins
\* add 10.0 and three (select add at least 12.0 to the score of 1.0.
C23_IndexSuggestionFollows ==
    Returned =>
        LET given == result.analysis.optimization_suggestions
        IN  /\ InSeq(sugJoins, given) \/ InSeq(sugSubqueries, given)
                  => InSeq(sugIndex, given)
            /\ result.analysis.joins > 3
                  => result.analysis.complexity_score >= 100 + 4 * 250
            /\ result.analysis.subqueries > 2
                  => result.analysis.complexity_score >= 100 + 3 * (300 + 100)

\* four joins and nothing else: score 11.0, both suggestions
C23_Witness ==
    /\ Returned
    /\ sql = Concat(<<9, 9>>)
    /\ result.analysis.joins = 4
    /\ result.analysis.complexity_score = 1100
    /\ result.analysis.optimization_suggestions = <<sugJoins, sugIndex>>

(***************************************************************************)
(* More of the predictor's properties, of PredictorSpec.                   *)
(***************************************************************************)
\* the band a time in milliseconds lies in
BandOf(t) ==
    CHOOSE name \in {"Excellent", "Good", "Average", "Slow", "Very Slow"} :
        \/ name = "Excellent" /\ t < 100
        \/ name = "Good" /\ 100 <= t /\ t < 500
        \/ name = "Average" /\ 500 <= t /\ t < 2000
        \/ name = "Slow" /\ 2000 <= t /\ t < 5000
        \/ name = "Very Slow" /\ 5000 <= t

\* C24: the performance_category of every predict result is the band of the
\* predicted_time of that same result, although the category is taken from
\* the regressor's output and the time returned is the floored one: an output
\* below 0.01 is returned as 0.01 and is Excellent.
C24_CategoryOfReturnedTime ==
    Predicted /\ call.raised = "" =>
        /\ call.returned.performance_category = BandOf(call.returned.predicted_time)
        /\ call.raw < 10 =>
               /\ call.returned.predicted_time = 10
               /\ call.returned.performance_category = "Excellent"

\* the regressor gives 0.005: 0.01 is returned, Excellent
C24_Witness ==
    /\ Predicted
    /\ call.raised = ""
    /\ call.raw = 5
    /\ call.returned.predicted_time = 10
    /\ call.returned.performance_category = "Excellent"

\* C25: once an instance is trained, no train or predict call makes
\* is_trained false again; predict on a trained instance trains nothing and
\* leaves its model, scaler and is_trained as they were; so a predict call
\* that follows a predict call on the same instance with the same analysis
\* returns the same result.
C25_TrainedStaysTrained ==
    [][/\ \A p \in Predictors : is_trained[p] => is_trained'[p]
       /\ call'.op = "predict" /\ is_trained[call'.on] =>
              /\ call'.raised = ""
              /\ StepAt("train")' = 0
              /\ scaler'[call'.on] = scaler[call'.on]
              /\ model'[call'.on] = model[call'.on]
              /\ is_trained'[call'.on]
       /\ /\ call.op = "predict" /\ call.raised = ""
          /\ call'.op = "predict"
          /\ call'.on = call.on
          /\ call'.analysis = call.analysis
          => call'.returned = call.returned]_vars

\* a second predict call on an instance trained on a caller's history
C25_Witness ==
    /\ Predicted
    /\ call.raised = ""
    /\ call.was_trained
    /\ ~call.first
    /\ ~fitted_on[call.on].synthetic
    /\ is_trained[call.on]

\* a list that train reads (10 samples or more) with a sample lacking a key
Unreadable(training_data) ==
    /\ Len(training_data) >= 10
    /\ \E i \in 1..Len(training_data) :
           {"analysis", "execution_time"} \ DOMAIN training_data[i] # {}

\* C26: train, given 10 or more samples one of which lacks the analysis or
\* the execution_time key, raises before the scaler or the model is refitted
\* and leaves is_trained, the scaler and the model as they were before the
\* call.
C26_FailedTrainKeepsOldFit ==
    [][call'.op = "train" /\ Unreadable(call'.training_data) =>
           /\ call'.raised = "KeyError"
           /\ ~InSeq("scaler.fit_transform", call'.steps)
           /\ ~InSeq("model.fit", call'.steps)
           /\ scaler' = scaler
           /\ model' = model
           /\ is_trained' = is_trained]_vars

\* an instance trained on a caller's history, after a train call that raised
C26_Witness ==
    /\ Trained
    /\ Unreadable(call.training_data)
    /\ call.raised = "KeyError"
    /\ call.was_trained
    /\ is_trained[call.on]
    /\ ~fitted_on[call.on].synthetic
    /\ model[call.on].fitted

\* C27: training replaces and never accumulates: after a successful train
\* call, whatever calls came before it on the instance, the scaler and the
\* model are those of a fresh predictor given that call's data alone; so a
\* train call with the data of the train call before it changes nothing.
C27_TrainingReplaces ==
    [][call'.op = "train" /\ call'.raised = "" =>
           LET p == call'.on
               fresh == train(NewPredictor, call'.training_data, np_random_state).self
           IN  /\ scaler'[p] = fresh.scaler
               /\ model'[p] = fresh.model
               /\ is_trained'[p]
               /\ /\ call.op = "train" /\ call.raised = ""
                  /\ call.on = p
                  /\ call.training_data = call'.training_data
                  => scaler'[p] = scaler[p] /\ model'[p] = model[p]]_vars

\* ten samples given to an instance that was trained before: ten rows held
C27_Witness ==
    /\ Trained
    /\ call.raised = ""
    /\ call.was_trained
    /\ Len(call.training_data) = 10
    /\ Len(model[call.on].X) = 10
    /\ model[call.on] = FitOn(TrainingMatrix(call.training_data)).model

(***************************************************************************)
(* The connector's properties, of ConnectorSpec.                           *)
(***************************************************************************)
\* C28: whenever connect does not return True (it returns False or nothing),
\* the connector holds no connection, for every engine and every combination
\* of failing steps.
C28_NoConnectionUnlessTrue ==
    called.op = "connect" /\ called.returned # "True" =>
        connector.connection = None

(***************************************************************************)
(* The schema view's properties, of SchemaSpec.                            *)
(***************************************************************************)
\* a schema request for a stored PostgreSQL or SQLite connection
SchemaRetrieved ==
    /\ served.op = "schema"
    /\ served.connection_id \in DOMAIN StoredConnections
    /\ StoredConnections[served.connection_id].engine \in {"postgresql", "sqlite"}

\* the places of a step among the steps of the request served
Places(step) == {i \in 1..Len(served.steps) : served.steps[i] = step}

\* C29: on every path through the PostgreSQL and the SQLite schema retrieval
\* (connect fails, get_schema raises, get_schema returns an empty schema, or
\* success) the connector has been closed and holds no connection when the
\* response is returned: close comes after connect and get_schema, it sets
\* connection to None even when the driver's close raises, and a second close
\* does nothing.
C29_ConnectorClosedOnEveryPath ==
    SchemaRetrieved =>
        /\ served.connector.connection = None
        /\ Places("close") # {}
        /\ \A i \in Places("connect") \cup Places("get_schema") :
               i < Min(Places("close"))
        /\ \A i \in 1..Len(served.steps) :
               i > Min(Places("close")) =>
                   served.steps[i] \in {"connection.close", "close"}
        /\ Cardinality(Places("connection.close")) <= 1
        /\ Cardinality(Places("close")) = 2 =>
               /\ served.steps[Len(served.steps)] = "close"
               /\ served.response.connection_status = "sample_data"

\* an empty schema from a connection whose close raises: closed once, then a
\* close that does nothing, and the sample's response
C29_Witness ==
    /\ SchemaRetrieved
    /\ served.close.close = "raise"
    /\ Cardinality(Places("close")) = 2
    /\ Cardinality(Places("connection.close")) = 1
    /\ Places("get_schema") # {}
    /\ served.connector.connection = None
    /\ served.response.data_source = "postgresql_fallback"

(***************************************************************************)
(* The query views' properties, of QuerySpec.                              *)
(***************************************************************************)
\* a query-builder request answered with its payload
BuildServed == served.op = "build" /\ served.response.status = 200

\* the steps of the request served, by name
Steps == {served.steps[i] : i \in 1..Len(served.steps)}

\* every step named `first` comes before every step named `then`
Before(first, then) ==
    /\ Places(first) # {}
    /\ Places(then) # {}
    /\ \A i \in Places(first), j \in Places(then) : i < j

C22_PredictionFromSyntheticFit ==
    /\ served.op = "execute" => "prediction" \notin DOMAIN served.response
    /\ served.op = "build" /\ "prediction" \in DOMAIN served.response =>
           /\ ~QueryBuilderView_init.predictor.is_trained
           /\ Before("predict", "train")
           /\ Before("train", "_generate_synthetic_data")
           /\ Before("_generate_synthetic_data", "model.fit")
           /\ Before("model.fit", "model.predict")
           /\ Cardinality(Places("train")) = 1
           /\ served.predictor.is_trained
           /\ served.predictor.scaler = SyntheticFit.scaler
           /\ served.predictor.model = SyntheticFit.model

\* a request without a text, predicted for the default text after training
C22_Witness ==
    /\ served.op = "build"
    /\ served.request.sql_query = <<>>
    /\ "prediction" \in DOMAIN served.response
    /\ served.response.sql_query = DefaultSql
    /\ "_convert_visual_to_sql" \in Steps
    /\ "model.fit" \in Steps

\* an execution request for a stored connection
ExecuteServed ==
    /\ served.op = "execute"
    /\ served.request.connection_id \in DOMAIN StoredConnections

\* the stored connection is neither SQLite nor the sample, and connect()
\* returned True
RealExecution ==
    LET connection == StoredConnections[served.request.connection_id]
    IN  /\ connection.engine # "sqlite"
        /\ connection.name # "Sample SQLite Database"
        /\ connect(DatabaseConnector([engine |-> connection.engine]),
                   served.connect).returned = "True"

\* the response of execute_sample_query
MockResult ==
    /\ served.response.status = 200
    /\ served.response.results = sample_results
    /\ served.response.rows_returned = 3
    /\ served.response.data_source = "sample"

\* C30: QueryExecutionView.post executes the caller's SQL against a database,
\* and writes a QueryHistory row, only when the stored connection's engine is
\* not sqlite, its name is not 'Sample SQLite Database' and connect()
\* succeeded (a row only for an authenticated user); in every other case the
\* fixed mock result is returned, no SQL is executed and no row is written.
C30_MockUnlessRealConnection ==
    ExecuteServed =>
        /\ "cursor.execute" \in Steps => RealExecution
        /\ served.wrote # <<>> => RealExecution /\ served.request.authenticated
        /\ ~RealExecution =>
               /\ MockResult
               /\ "cursor.execute" \notin Steps
               /\ served.wrote = <<>>

====
